---- MODULE Spec2Model ----
(***************************************************************************)
(* Model of syslog_injector.cpp: the pacing loop of run_test, the signal   *)
(* handler, the connection handle and the statistics counters.             *)
(*                                                                         *)
(* Time is measured in microseconds since test_start (line 192).  The      *)
(* process is one control flow (pc) plus the asynchronous signal handler.  *)
(* pc is cut at the calls that block or perform I/O: connect, send, the    *)
(* reconnect sleep+connect, sleep_until, the final print and the final     *)
(* close.                                                                  *)
(***************************************************************************)
EXTENDS Integers, Naturals, Sequences, FiniteSets, TLC

\* ---- program constants ----
UsPerSecond == 1000000
ReconnectSleepUs == 100000
FirstFd == 3
SigFpeExit == 136
SigAbrtExit == 134

\* ---- bounds of the model ----
MaxRate == 2
MaxBatch == 2
MaxDuration == 2
MaxCounter == 3
MaxBatches == 4
DetMaxCounter == 2100
DetMaxBatches == 1100
TemplateLen == 0

\* environment delays, in microseconds
SendDelayUs == UsPerSecond
OvershootUs == UsPerSecond \div 4
SendDelays == {0, SendDelayUs}
Overshoots == {0, OvershootUs}

VARIABLES
    env,               \* "live": any environment; "det": deterministic clock, no faults;
                       \* "fair": any faults, every loop iteration takes time;
                       \* "arith": no faults, configurations up to the int range
    target_rate, duration, batch_size,   \* Config (lines 20-27)
    running,           \* std::atomic<bool> running (line 18)
    pc,                \* position of the control flow in main/run_test
    sock,              \* int sock (line 177)
    openFds,           \* descriptors the process holds open
    batch_interval_us, \* line 189
    now,               \* steady clock, microseconds since test_start
    next_batch_time, last_print_time,    \* lines 193-194
    counter,           \* uint64_t counter (line 196)
    i,                 \* loop variable of the batch loop (line 207)
    message,           \* counter value rendered into the message in flight
    sent,              \* ssize_t sent (line 211), result of the last send
    messages_sent, bytes_sent, errors,   \* Stats (lines 29-34)
    exitCode,          \* process exit status, -1 while the process runs
    wire,              \* history: counter values handed to send(), in order
    connectAttempts,   \* history: calls of connect_to_socket
    connId,            \* history: successful connects so far
    batchNo,           \* history: batch ticks started
    finalPrints,       \* history: calls of print_stats(stats, true)
    livePrints,        \* history: calls of print_stats(stats)
    sendsAfterCancel,  \* history: send() calls made while running = false
    stopCause,         \* history: why the run left the loop / ended
    tickStart,         \* history: clock value at which the current batch tick started
    overran,           \* history: some batch tick took longer than batch_interval_us
    failedSends,       \* history: send() calls that returned -1
    lastLiveAt         \* history: clock value of the last live snapshot, -1 if none

vars == <<env, target_rate, duration, batch_size, running, pc, sock, openFds,
          batch_interval_us, now, next_batch_time, last_print_time, counter,
          i, message, sent, messages_sent, bytes_sent, errors, exitCode,
          wire, connectAttempts, connId, batchNo, finalPrints, livePrints,
          sendsAfterCancel, stopCause, tickStart, overran, failedSends,
          lastLiveAt>>

Max(a, b) == IF a >= b THEN a ELSE b

\* more batch ticks than a run can start when every loop iteration takes at
\* least OvershootUs
FairMaxBatches == duration * (UsPerSecond \div OvershootUs) + 2

\* the caps that keep the explored runs finite
CounterCap ==
    CASE env = "det" -> DetMaxCounter
      [] env = "fair" -> FairMaxBatches * batch_size
      [] OTHER -> MaxCounter
BatchCap ==
    CASE env = "det" -> DetMaxBatches
      [] env = "fair" -> FairMaxBatches
      [] OTHER -> MaxBatches

\* the overshoots sleep_until may show in each environment
OvershootsOf(e) ==
    CASE e \in {"det", "arith"} -> {0}
      [] e = "fair" -> {OvershootUs}
      [] OTHER -> Overshoots

\* configurations <<target_rate, batch_size, duration>> of the deterministic runs
DetConfigs == {<<1, 1, 1>>, <<2, 1, 2>>, <<1, 2, 1>>, <<2001, 2, 1>>}

\* configurations <<target_rate, batch_size, duration>> of the fair runs
FairConfigs == {<<1, 1, 1>>, <<2, 1, 1>>, <<2, 2, 1>>, <<1, 2, 1>>,
                <<1, 0, 1>>, <<0, 1, 1>>, <<1, 1, 0>>}

\* ---- pure helpers ----

RECURSIVE NumDigits(_)
\* std::to_string(counter).length()
NumDigits(n) == IF n < 10 THEN 1 ELSE 1 + NumDigits(n \div 10)

\* length of format_message(template, c) + "\n": the template's fixed text,
\* the decimal counter, the newline appended at line 209
MsgLen(c) == TemplateLen + NumDigits(c) + 1

NextCounter_skip(c) == c + 2

\* counter++ (line 208)
NextCounter(c) == c + 1

\* values send() may return for a payload of len bytes (line 211)
SendResults(len) == {-1} \cup (0 .. len)

\* sent < 0 (line 212)
SendFailed(s) == s < 0

RecordError_twice(e) == e + 2

RecordError_forgotten(e) == e

\* stats.errors++ (line 216)
RecordError(e) == e + 1

AddBytes_assign(b, n) == n

\* stats.bytes_sent += sent (line 228)
AddBytes(b, n) == b + n

CloseFd_leak(fds, fd) == fds

\* close(sock) (lines 219, 245)
CloseFd(fds, fd) == fds \ {fd}

ForCond_batchOnly(k, run) == k < batch_size

ForCond_offByOne(k, run) == k <= batch_size /\ run

ForCond_timed(k, run) == k < batch_size /\ run /\ now \div UsPerSecond < duration

\* i < config.batch_size && running (line 207)
ForCond(k, run) == k < batch_size /\ run

DurationExceeded_strict(elapsed) == elapsed > duration

DurationExceeded_never(elapsed) == FALSE

\* elapsed >= config.duration (line 202)
DurationExceeded(elapsed) == elapsed >= duration

\* duration_cast<seconds>(d).count() for d >= 0 (lines 201, 234)
WholeSeconds(d) == d \div UsPerSecond

PrintDue_anyTime(t, last) == WholeSeconds(t - last) >= 0

\* duration_cast<seconds>(now - last_print_time).count() >= 1 (line 234)
PrintDue(t, last) == WholeSeconds(t - last) >= 1

\* return value of run_test after the loop (line 247)
GracefulExit == 0

ReconnectFailExit_asGraceful == GracefulExit

\* return value of run_test when the reconnect failed (line 224)
ReconnectFailExit == 1

\* return value of run_test when the initial connect failed (line 179)
ConnectFailExit == 1

\* lowest free descriptor, as socket() returns it (line 126)
NewFd == CHOOSE f \in FirstFd .. (FirstFd + Cardinality(openFds)) : f \notin openFds

\* what the calls inside connect_to_socket may do: socket() fails, connect()
\* fails, or both succeed (lines 126-144)
ConnectOutcomes == {"ok", "nosocket", "refused"}

\* connect_to_socket (lines 125-145): the returned descriptor, or -1
ConnectReturn(outcome) == IF outcome = "ok" THEN NewFd ELSE -1

\* connect_to_socket (lines 125-145): the descriptors open when it returns;
\* a socket whose connect() failed is closed again (line 140)
ConnectFds(fds, outcome) ==
    CASE outcome = "ok" -> fds \cup {NewFd}
      [] outcome = "refused" -> CloseFd(fds \cup {NewFd}, NewFd)
      [] OTHER -> fds

\* (config.batch_size * 1000000) / config.target_rate (line 190), r /= 0
BatchInterval(b, r) == (b * UsPerSecond) \div r

\* int is 32 bits wide (lines 23-25)
Two16 == 2 ^ 16
MaxInt32 == (2 ^ 30 - 1) + 2 ^ 30

\* config.batch_size * 1000000 exceeds the range of int, b >= 0
MulOverflows(b) == b > MaxInt32 \div UsPerSecond

\* b * 1000000 reduced to a 32-bit two's complement int, b >= 0, computed
\* on 16-bit halves
WrappedProduct(b) ==
    LET bh == b \div Two16
        bl == b % Two16
        ch == UsPerSecond \div Two16
        cl == UsPerSecond % Two16
        low == bl * cl
        hi16 == ((low \div Two16) + bl * ch + bh * cl) % Two16
        lo16 == low % Two16
    IN  IF hi16 >= Two16 \div 2
        THEN (hi16 - Two16) * Two16 + lo16
        ELSE hi16 * Two16 + lo16

\* a / r as C++ divides ints: the quotient is truncated toward zero, r > 0
TruncDiv(a, r) == IF a >= 0 THEN a \div r ELSE -((-a) \div r)

\* what line 190 can do: [trap |-> exit status or 0, value |-> the interval].
\* Division by zero and signed overflow are undefined: the division traps
\* with SIGFPE or yields 0; the overflow wraps or aborts (-ftrapv)
IntervalOutcomes(b, r) ==
    IF r = 0
    THEN {[trap |-> SigFpeExit, value |-> 0], [trap |-> 0, value |-> 0]}
    ELSE IF MulOverflows(b)
    THEN {[trap |-> SigAbrtExit, value |-> 0],
          [trap |-> 0, value |-> TruncDiv(WrappedProduct(b), r)]}
    ELSE {[trap |-> 0, value |-> BatchInterval(b, r)]}

\* the environments without faults and signals
Quiet == env \in {"det", "arith"}

\* configurations <<target_rate, batch_size>> of the arithmetic runs
ArithRates == {1, 3, 7, 1000, 2001, MaxInt32}
ArithBatches == {1, 2, 100, 2147, 2148, 3000, 65536, MaxInt32}

NextBoundary_fromNow(prev, t) == t + batch_interval_us

\* next_batch_time += batch_interval_us (line 240)
NextBoundary(prev, t) == prev + batch_interval_us

\* sleep_until(boundary) called at time t (line 241): the boundary, or t
\* itself when the boundary has passed
WakeTime(t, boundary) == Max(t, boundary)

\* ---- initial state: main has installed the handlers and loaded the config ----

InitCommon ==
    /\ running = TRUE
    /\ pc = "connect"
    /\ sock = -1
    /\ openFds = {}
    /\ batch_interval_us = 0
    /\ now = 0
    /\ next_batch_time = 0
    /\ last_print_time = 0
    /\ counter = 0
    /\ i = 0
    /\ message = -1
    /\ sent = 0
    /\ messages_sent = 0
    /\ bytes_sent = 0
    /\ errors = 0
    /\ exitCode = -1
    /\ wire = << >>
    /\ connectAttempts = 0
    /\ connId = 0
    /\ batchNo = 0
    /\ finalPrints = 0
    /\ livePrints = 0
    /\ sendsAfterCancel = 0
    /\ stopCause = "none"
    /\ tickStart = 0
    /\ overran = FALSE
    /\ failedSends = 0
    /\ lastLiveAt = -1

\* load_config (lines 40-83): std::stoi accepts any int, nothing is validated
Init ==
    /\ env = "live"
    /\ target_rate \in 0 .. MaxRate
    /\ batch_size \in 0 .. MaxBatch
    /\ duration \in 0 .. MaxDuration
    /\ InitCommon

\* a run under the deterministic clock: no faults, no signal, no delays
InitDet ==
    /\ env = "det"
    /\ \E c \in DetConfigs :
         /\ target_rate = c[1]
         /\ batch_size = c[2]
         /\ duration = c[3]
    /\ InitCommon

\* a run in which the clock advances in every loop iteration
InitFair ==
    /\ env = "fair"
    /\ \E c \in FairConfigs :
         /\ target_rate = c[1]
         /\ batch_size = c[2]
         /\ duration = c[3]
    /\ InitCommon

\* a run that only computes the interval: duration 0, no faults
InitArith ==
    /\ env = "arith"
    /\ target_rate \in ArithRates
    /\ batch_size \in ArithBatches
    /\ duration = 0
    /\ InitCommon

\* ---- actions ----

\* signal_handler (lines 36-38), delivered at any point of the run
Signal ==
    /\ ~Quiet
    /\ pc \notin {"done", "crashed"}
    /\ running' = FALSE
    /\ UNCHANGED <<tickStart, overran>>
    /\ UNCHANGED failedSends
    /\ UNCHANGED lastLiveAt
    /\ UNCHANGED <<env, target_rate, duration, batch_size, pc, sock, openFds,
                   batch_interval_us, now, next_batch_time, last_print_time,
                   counter, i, message, sent, messages_sent, bytes_sent,
                   errors, exitCode, wire, connectAttempts, connId, batchNo,
                   finalPrints, livePrints, sendsAfterCancel, stopCause>>

\* run_test lines 175-196: initial connect, batch interval, loop set-up
ConnectInitial ==
    /\ pc = "connect"
    /\ connectAttempts' = connectAttempts + 1
    /\ \E outcome \in (IF Quiet THEN {"ok"} ELSE ConnectOutcomes) :
         /\ sock' = ConnectReturn(outcome)
         /\ openFds' = ConnectFds(openFds, outcome)
         /\ IF sock' < 0
            THEN \* connect_to_socket returned -1: return 1 (lines 178-180)
              /\ exitCode' = ConnectFailExit
              /\ stopCause' = "connect"
              /\ pc' = "done"
              /\ UNCHANGED <<connId, batch_interval_us>>
            ELSE
              /\ connId' = connId + 1
              /\ \E o \in IntervalOutcomes(batch_size, target_rate) :
                   IF o.trap # 0
                   THEN /\ pc' = "crashed"
                        /\ exitCode' = o.trap
                        /\ stopCause' = "crash"
                        /\ UNCHANGED batch_interval_us
                   ELSE /\ pc' = "while"
                        /\ batch_interval_us' = o.value
                        /\ UNCHANGED <<exitCode, stopCause>>
    /\ UNCHANGED <<tickStart, overran>>
    /\ UNCHANGED failedSends
    /\ UNCHANGED lastLiveAt
    /\ UNCHANGED <<env, target_rate, duration, batch_size, running, now,
                   next_batch_time, last_print_time, counter, i, message, sent,
                   messages_sent, bytes_sent, errors, wire, batchNo,
                   finalPrints, livePrints, sendsAfterCancel>>

\* lines 198-204: while (running), duration check
LoopCheck ==
    /\ pc = "while"
    /\ IF ~running
       THEN /\ pc' = "final"
            /\ stopCause' = "cancel"
            /\ UNCHANGED <<i, batchNo, tickStart>>
       ELSE IF DurationExceeded(WholeSeconds(now))
       THEN /\ pc' = "final"
            /\ stopCause' = "duration"
            /\ UNCHANGED <<i, batchNo, tickStart>>
       ELSE /\ batchNo < BatchCap
            /\ pc' = "for"
            /\ i' = 0
            /\ batchNo' = batchNo + 1
            /\ tickStart' = now
            /\ UNCHANGED stopCause
    /\ UNCHANGED overran
    /\ UNCHANGED failedSends
    /\ UNCHANGED lastLiveAt
    /\ UNCHANGED <<env, target_rate, duration, batch_size, running, sock,
                   openFds, batch_interval_us, now, next_batch_time,
                   last_print_time, counter, message, sent, messages_sent,
                   bytes_sent, errors, exitCode, wire, connectAttempts, connId,
                   finalPrints, livePrints, sendsAfterCancel>>

\* line 207-209 when the loop condition holds: render the next message;
\* lines 232-240 when it does not: live statistics, next boundary
ForCheck ==
    /\ pc = "for"
    /\ IF ForCond(i, running)
       THEN /\ counter < CounterCap
            /\ message' = counter
            /\ counter' = NextCounter(counter)
            /\ pc' = "send"
            /\ UNCHANGED <<last_print_time, livePrints, next_batch_time, overran,
                           lastLiveAt>>
       ELSE /\ IF PrintDue(now, last_print_time)
               THEN /\ livePrints' = livePrints + 1
                    /\ last_print_time' = now
                    /\ lastLiveAt' = now
               ELSE UNCHANGED <<livePrints, last_print_time, lastLiveAt>>
            /\ next_batch_time' = NextBoundary(next_batch_time, now)
            /\ overran' = (overran \/ now - tickStart > batch_interval_us)
            /\ pc' = "sleep"
            /\ UNCHANGED <<message, counter>>
    /\ UNCHANGED tickStart
    /\ UNCHANGED failedSends
    /\ UNCHANGED <<env, target_rate, duration, batch_size, running, sock,
                   openFds, batch_interval_us, now, i, sent, messages_sent,
                   bytes_sent, errors, exitCode, wire, connectAttempts, connId,
                   batchNo, finalPrints, sendsAfterCancel, stopCause>>

\* lines 211-229 up to the reconnect sleep: send, account, close on failure
Send ==
    /\ pc = "send"
    /\ \E r \in (IF Quiet THEN {MsgLen(message)} ELSE SendResults(MsgLen(message))),
          dt \in (IF Quiet THEN {0} ELSE SendDelays) :
         /\ sent' = r
         /\ now' = now + dt
         /\ IF SendFailed(r)
            THEN /\ errors' = RecordError(errors)
                 /\ openFds' = CloseFd(openFds, sock)
                 /\ pc' = "reconnect"
                 /\ UNCHANGED <<messages_sent, bytes_sent, i>>
            ELSE /\ messages_sent' = messages_sent + 1
                 /\ bytes_sent' = AddBytes(bytes_sent, r)
                 /\ i' = i + 1
                 /\ pc' = "for"
                 /\ UNCHANGED <<errors, openFds>>
    /\ wire' = Append(wire, message)
    /\ failedSends' = IF sent' = -1 THEN failedSends + 1 ELSE failedSends
    /\ sendsAfterCancel' = IF running THEN sendsAfterCancel ELSE sendsAfterCancel + 1
    /\ UNCHANGED <<tickStart, overran>>
    /\ UNCHANGED lastLiveAt
    /\ UNCHANGED <<env, target_rate, duration, batch_size, running, sock,
                   batch_interval_us, next_batch_time, last_print_time, counter,
                   message, exitCode, connectAttempts, connId, batchNo,
                   finalPrints, livePrints, stopCause>>

\* lines 220-225 and the ++i of line 207: sleep 100 ms, reconnect once
Reconnect ==
    /\ pc = "reconnect"
    /\ ~Quiet
    /\ now' = now + ReconnectSleepUs
    /\ connectAttempts' = connectAttempts + 1
    /\ \E outcome \in ConnectOutcomes :
         /\ sock' = ConnectReturn(outcome)
         /\ openFds' = ConnectFds(openFds, outcome)
         /\ IF sock' >= 0
            THEN /\ connId' = connId + 1
                 /\ i' = i + 1
                 /\ pc' = "for"
                 /\ UNCHANGED <<exitCode, stopCause>>
            ELSE /\ exitCode' = ReconnectFailExit
                 /\ stopCause' = "reconnect"
                 /\ pc' = "done"
                 /\ UNCHANGED <<connId, i>>
    /\ UNCHANGED <<tickStart, overran>>
    /\ UNCHANGED failedSends
    /\ UNCHANGED lastLiveAt
    /\ UNCHANGED <<env, target_rate, duration, batch_size, running,
                   batch_interval_us, next_batch_time, last_print_time, counter,
                   message, sent, messages_sent, bytes_sent, errors, wire,
                   batchNo, finalPrints, livePrints, sendsAfterCancel>>

\* line 241: sleep_until(next_batch_time) returns no earlier than the
\* boundary and no earlier than it was called
SleepUntil ==
    /\ pc = "sleep"
    /\ \E over \in OvershootsOf(env) :
         now' = WakeTime(now, next_batch_time) + over
    /\ pc' = "while"
    /\ UNCHANGED <<tickStart, overran>>
    /\ UNCHANGED failedSends
    /\ UNCHANGED lastLiveAt
    /\ UNCHANGED <<env, target_rate, duration, batch_size, running, sock,
                   openFds, batch_interval_us, next_batch_time, last_print_time,
                   counter, i, message, sent, messages_sent, bytes_sent, errors,
                   exitCode, wire, connectAttempts, connId, batchNo,
                   finalPrints, livePrints, sendsAfterCancel, stopCause>>

\* line 244: print_stats(stats, true)
FinalPrint ==
    /\ pc = "final"
    /\ finalPrints' = finalPrints + 1
    /\ pc' = "close"
    /\ UNCHANGED <<tickStart, overran>>
    /\ UNCHANGED failedSends
    /\ UNCHANGED lastLiveAt
    /\ UNCHANGED <<env, target_rate, duration, batch_size, running, sock,
                   openFds, batch_interval_us, now, next_batch_time,
                   last_print_time, counter, i, message, sent, messages_sent,
                   bytes_sent, errors, exitCode, wire, connectAttempts, connId,
                   batchNo, livePrints, sendsAfterCancel, stopCause>>

\* lines 245-247: close(sock); return 0
CloseFinal ==
    /\ pc = "close"
    /\ openFds' = CloseFd(openFds, sock)
    /\ exitCode' = GracefulExit
    /\ pc' = "done"
    /\ UNCHANGED <<tickStart, overran>>
    /\ UNCHANGED failedSends
    /\ UNCHANGED lastLiveAt
    /\ UNCHANGED <<env, target_rate, duration, batch_size, running, sock,
                   batch_interval_us, now, next_batch_time, last_print_time,
                   counter, i, message, sent, messages_sent, bytes_sent, errors,
                   wire, connectAttempts, connId, batchNo, finalPrints,
                   livePrints, sendsAfterCancel, stopCause>>

Next ==
    \/ Signal
    \/ ConnectInitial
    \/ LoopCheck
    \/ ForCheck
    \/ Send
    \/ Reconnect
    \/ SleepUntil
    \/ FinalPrint
    \/ CloseFinal

Spec == Init /\ [][Next]_vars

NextDet ==
    \/ ConnectInitial
    \/ LoopCheck
    \/ ForCheck
    \/ Send
    \/ SleepUntil
    \/ FinalPrint
    \/ CloseFinal

SpecDet == InitDet /\ [][NextDet]_vars

\* every call returns: the control flow always takes its next step; the
\* signal may or may not be delivered
Fairness ==
    /\ WF_vars(ConnectInitial)
    /\ WF_vars(LoopCheck)
    /\ WF_vars(ForCheck)
    /\ WF_vars(Send)
    /\ WF_vars(Reconnect)
    /\ WF_vars(SleepUntil)
    /\ WF_vars(FinalPrint)
    /\ WF_vars(CloseFinal)

SpecFair == InitFair /\ [][Next]_vars /\ Fairness

NextArith ==
    \/ ConnectInitial
    \/ LoopCheck
    \/ FinalPrint
    \/ CloseFinal

SpecArith == InitArith /\ [][NextArith]_vars

TypeOK ==
    /\ pc \in {"connect", "while", "for", "send", "reconnect", "sleep",
               "final", "close", "done", "crashed"}
    /\ running \in BOOLEAN
    /\ counter \in 0 .. CounterCap
    /\ exitCode \in {-1, 0, 1, SigFpeExit, SigAbrtExit}

\* ---- properties ----

Abs(x) == IF x < 0 THEN -x ELSE x

GracefulStop == stopCause \in {"duration", "cancel"}

\* C1: the N-th message handed to send() in a run carries the counter value
\* N-1, whatever mix of successful sends, failed sends and reconnects
\* preceded it: zero-based, strictly increasing, no gap, no duplicate.
C1_CounterIsMessageIndex ==
    \A n \in 1 .. Len(wire) : wire[n] = n - 1

\* C1 witness: three messages have gone out, one send failed and the
\* connection was re-established in between.
C1_Witness ==
    /\ Len(wire) >= 3
    /\ errors >= 1
    /\ connId >= 2
    /\ messages_sent >= 1

\* C2: a failed send adds exactly one to errors, closes the broken handle
\* and leads to exactly one connect attempt; a successful reconnect resumes
\* the same batch at the next index on a fresh, open handle, and the loop
\* goes on to send while messages of the batch remain.
C2_MidBatchFailureRecovery ==
    [][ /\ (pc = "send" /\ pc' # "send" /\ SendFailed(sent')) =>
              /\ errors' = errors + 1
              /\ sock \notin openFds'
              /\ connectAttempts' = connectAttempts
              /\ pc' = "reconnect"
        /\ (pc = "reconnect" /\ pc' # "reconnect") =>
              /\ connectAttempts' = connectAttempts + 1
              /\ errors' = errors
              /\ pc' \in {"for", "done"}
              /\ pc' = "for" =>
                    /\ i' = i + 1
                    /\ batchNo' = batchNo
                    /\ connId' = connId + 1
                    /\ sock' \in openFds'
                    /\ counter' = counter
        /\ (pc = "for" /\ pc' # "for" /\ i < batch_size /\ running) =>
              /\ pc' = "send"
              /\ sock \in openFds
        /\ (connectAttempts' >= 1 /\ pc' # "crashed") =>
              connectAttempts' = 1 + errors' - (IF pc' = "reconnect" THEN 1 ELSE 0)
      ]_vars

\* C2 witness: the first send of a batch failed, the reconnect succeeded and
\* the second message of the same batch is in flight on the new connection.
C2_Witness ==
    /\ pc = "send"
    /\ i = 1
    /\ batchNo = 1
    /\ errors = 1
    /\ connId = 2
    /\ sock \in openFds

\* C3: when the reconnect after a failed send fails, the run stops with a
\* non-zero exit code and the final statistics have been printed.
C3_ReconnectFailurePrintsFinal ==
    (pc = "done" /\ stopCause = "reconnect") =>
        (exitCode # 0 /\ finalPrints = 1)

\* C4: once running is false no send is started any more, in this batch or a
\* later one; only a send already in flight completes, so at most one
\* send() is made after the flag was set.
C4_CancelHaltsWithinOneMessage ==
    [][ /\ (~running /\ pc' = "send") => pc = "send"
        /\ (~running /\ pc # "send") => wire' = wire
        /\ sendsAfterCancel' <= 1
      ]_vars

\* C4 witness: the flag was set while a send was in flight, that send has
\* completed, and the batch still had messages to go.
C4_Witness ==
    /\ ~running
    /\ sendsAfterCancel = 1
    /\ pc = "for"
    /\ i < batch_size

\* C5: a run that left the loop on the duration or the cancellation check
\* prints the final statistics exactly once, after the last send attempt,
\* and closes the connection after that.
C5_FinalSnapshotOnceThenClose ==
    /\ finalPrints <= 1
    /\ (GracefulStop /\ pc = "final") => (finalPrints = 0 /\ sock \in openFds)
    /\ (GracefulStop /\ pc = "close") => (finalPrints = 1 /\ sock \in openFds)
    /\ (GracefulStop /\ pc = "done") => (finalPrints = 1 /\ openFds = {})
    /\ finalPrints >= 1 => pc \in {"close", "done"}

\* C5 witness: a run that sent messages, was stopped and has exited.
C5_Witness ==
    /\ pc = "done"
    /\ GracefulStop
    /\ Len(wire) >= 1
    /\ finalPrints = 1

\* C6: a configuration with target_rate = 0 or batch_size = 0 is rejected
\* before any connection attempt, and never reaches the division.
C6_ZeroConfigRejected ==
    (target_rate = 0 \/ batch_size = 0) =>
        (connectAttempts = 0 /\ pc \notin {"while", "crashed"})

\* C7: under the deterministic clock, without faults or cancellation, a run
\* ends with messages_sent within batch_size of target_rate * duration.
C7_RateWithinOneBatch ==
    (env = "det" /\ pc = "done") =>
        Abs(messages_sent - target_rate * duration) <= batch_size

\* C8 as stated: with duration = 0 the loop is never left through the
\* duration check.
C8_ZeroDurationRunsUntilCancelled ==
    duration = 0 => stopCause # "duration"

\* C8 amended: with duration = 0 the first duration check already ends the
\* loop: no batch tick starts and no message is sent, and a run whose
\* connect succeeded exits with code 0 after the final statistics.
C8_ZeroDurationStopsAtOnce ==
    duration = 0 =>
        /\ batchNo = 0
        /\ wire = << >>
        /\ messages_sent = 0
        /\ pc \notin {"for", "send", "reconnect", "sleep"}
        /\ stopCause \notin {"reconnect"}
        /\ (pc = "done" /\ connId >= 1) =>
              (GracefulStop /\ exitCode = 0 /\ finalPrints = 1)

\* C8 witness: duration 0, no signal was delivered, the run has ended through
\* the duration check.
C8_Witness ==
    /\ duration = 0
    /\ running
    /\ pc = "done"
    /\ stopCause = "duration"
    /\ exitCode = 0

\* C9: the exit code is 0 when the run ended on the duration or the
\* cancellation check and non-zero when the initial connect or a reconnect
\* failed; an initial connect failure ends the run after that single
\* attempt with nothing sent.
C9_ExitCodes ==
    pc = "done" =>
        /\ exitCode # -1
        /\ GracefulStop => exitCode = 0
        /\ stopCause \in {"connect", "reconnect"} => exitCode # 0
        /\ stopCause = "connect" =>
              (connectAttempts = 1 /\ wire = << >> /\ messages_sent = 0 /\ errors = 0)

\* C9 witness: a run ended by a failed reconnect.
C9_Witness ==
    /\ pc = "done"
    /\ stopCause = "reconnect"
    /\ exitCode = 1
    /\ errors >= 1

\* C10: a send that returns fewer bytes than the payload with its newline is
\* a send error: errors is incremented, the handle is closed for the
\* reconnect, and messages_sent and bytes_sent stay as they were.
C10_PartialWriteIsSendError ==
    [][ (pc = "send" /\ pc' # "send" /\ sent' < MsgLen(message)) =>
            /\ errors' = errors + 1
            /\ pc' = "reconnect"
            /\ messages_sent' = messages_sent
            /\ bytes_sent' = bytes_sent
      ]_vars

Stopped == pc \in {"done", "crashed"}

\* C11: when every send and connect call returns and the clock advances,
\* every run ends: the loop is left and the process terminates, whatever
\* send failures, reconnects and signals occur.
C11_EveryRunStops ==
    <>Stopped

\* C11 witness: a run that went through a failed send and a successful
\* reconnect, kept sending, and ended on the duration check.
C11_Witness ==
    /\ env = "fair"
    /\ pc = "done"
    /\ stopCause = "duration"
    /\ connId >= 2
    /\ messages_sent >= 1

\* the caps of the fair runs are never reached by the code
FairCapsNotBinding ==
    env = "fair" =>
        /\ (pc = "while" /\ running /\ ~DurationExceeded(WholeSeconds(now))) =>
              batchNo < BatchCap
        /\ (pc = "for" /\ ForCond(i, running)) => counter < CounterCap

\* a batch tick starts in this step
TickStarts == batchNo' = batchNo + 1

\* C12 as stated: a tick makes at most batch_size send attempts, and once a
\* tick has overrun its interval the ticks after it start at least
\* batch_interval_us apart.
C12_NoCatchUpAfterOverrun ==
    [][ /\ i' <= Max(batch_size, 0)
        /\ (TickStarts /\ overran /\ batchNo >= 1) =>
              now - tickStart >= batch_interval_us
      ]_vars

\* C12 amended: a tick makes at most batch_size send attempts and tick k
\* never starts before its boundary (k-1) * batch_interval_us; the sleeps
\* after an overrun are shortened or skipped, so the schedule is caught up
\* tick by tick, never by a larger batch.
C12_BatchCeilingAndBoundaries ==
    /\ i <= Max(batch_size, 0)
    /\ pc = "send" => i < batch_size
    /\ pc \in {"for", "send", "reconnect"} =>
          /\ next_batch_time = (batchNo - 1) * batch_interval_us
          /\ tickStart >= next_batch_time

\* C12 witness: after an overrun a tick has started less than
\* batch_interval_us after the tick before it, and is sending.
C12_Witness ==
    /\ overran
    /\ batchNo >= 3
    /\ pc = "send"
    /\ batch_interval_us > 0
    /\ tickStart < next_batch_time + batch_interval_us
    /\ tickStart > next_batch_time

\* C13: every error that occurs (a failed send, a failed reconnect, a
\* failed initial connect) increments errors, so errors equals the number
\* of errors that occurred.
C13_EveryErrorCounted ==
    errors = failedSends + (connectAttempts - connId)

\* C14: messages_sent, bytes_sent and errors never decrease, whatever step
\* the run takes.
C14_CountersMonotone ==
    [][ /\ messages_sent' >= messages_sent
        /\ bytes_sent' >= bytes_sent
        /\ errors' >= errors
      ]_vars

\* C14 witness: all three counters have grown, a short write and a failure
\* included, a live snapshot was printed and the run has ended.
C14_Witness ==
    /\ messages_sent >= 2
    /\ bytes_sent >= 1
    /\ bytes_sent < 2 * messages_sent
    /\ errors >= 1
    /\ livePrints >= 1
    /\ pc = "done"

\* C15: two consecutive live snapshots are at least one second apart,
\* whatever the batch interval and however the batches overrun.
C15_LiveSnapshotsOneSecondApart ==
    [][ (livePrints' = livePrints + 1 /\ lastLiveAt >= 0) =>
            now' - lastLiveAt >= UsPerSecond
      ]_vars

\* C15 witness: a second live snapshot has been printed.
C15_Witness ==
    /\ livePrints >= 2
    /\ lastLiveAt >= 2 * UsPerSecond

\* C16: at most one connection handle is open at any time and it is the one
\* held in sock; the broken handle is closed before the reconnect; a handle
\* whose connect failed is closed; no handle is open once the run has
\* ended gracefully, on an initial connect failure or on a reconnect failure.
C16_OneHandleNoLeak ==
    /\ Cardinality(openFds) <= 1
    /\ openFds # {} => openFds = {sock}
    /\ pc = "reconnect" => openFds = {}
    /\ (pc = "done" /\ stopCause \in {"duration", "cancel", "connect", "reconnect"}) =>
          openFds = {}

\* C16 witness: the handle was replaced once, a later send failed and the
\* reconnect failed: the run has ended with nothing open.
C16_Witness ==
    /\ pc = "done"
    /\ stopCause = "reconnect"
    /\ connId = 2
    /\ errors = 2
    /\ openFds = {}

\* C17: the boundary is anchored to the previous boundary: after k
\* completed batch ticks next_batch_time is k * batch_interval_us past the
\* run start, however long the batches, reconnects and prints took; the
\* sleep returns without waiting when that boundary has passed and not
\* before the boundary otherwise.
C17_BoundaryAnchoredToSchedule ==
    [][ /\ pc' = "sleep" => next_batch_time' = batchNo' * batch_interval_us'
        /\ pc' \in {"for", "send", "reconnect"} =>
              next_batch_time' = (batchNo' - 1) * batch_interval_us'
        /\ (pc = "sleep" /\ pc' = "while") =>
              /\ next_batch_time' = next_batch_time
              /\ now >= next_batch_time => now' - now \in OvershootsOf(env)
              /\ now < next_batch_time => now' - next_batch_time \in OvershootsOf(env)
      ]_vars

\* C17 witness: two ticks are complete, one of them overran, and the sleep
\* was skipped because the boundary 2 * batch_interval_us had passed.
C17_Witness ==
    /\ pc = "while"
    /\ batchNo = 2
    /\ overran
    /\ batch_interval_us > 0
    /\ next_batch_time = 2 * batch_interval_us
    /\ now > next_batch_time
    /\ now = tickStart + SendDelayUs

\* C18: for positive batch_size and target_rate in the range of int the
\* product batch_size * 1000000 does not overflow int, and the interval is
\* the floor of the quotient and not negative.
C18_IntervalExactNoOverflow ==
    (connId >= 1 /\ batch_size > 0 /\ target_rate > 0) =>
        /\ ~MulOverflows(batch_size)
        /\ pc # "crashed"
        /\ batch_interval_us >= 0
        /\ batch_interval_us = (batch_size * UsPerSecond) \div target_rate

InBatch == pc \in {"for", "send", "reconnect"}

\* C19: every send attempt is accounted exactly once: between send
\* attempts the next counter value equals messages_sent + errors (one more
\* while a message is in flight), and no message is handed to send() twice,
\* a failed one included.
C19_AttemptsAccountedOnce ==
    /\ pc # "send" => counter = messages_sent + errors
    /\ pc = "send" => counter = messages_sent + errors + 1
    /\ Len(wire) = messages_sent + errors
    /\ \A m, n \in 1 .. Len(wire) : m # n => wire[m] # wire[n]
    /\ pc = "send" => \A n \in 1 .. Len(wire) : wire[n] # message

\* C19 witness: a send failed, the connection was re-established and the
\* next message, not the failed one, is in flight.
C19_Witness ==
    /\ pc = "send"
    /\ connId = 2
    /\ errors = 1
    /\ sent = -1
    /\ wire = <<0>>
    /\ message = 1

\* C20: the duration is tested only where a batch tick starts: a tick
\* starts only while the whole seconds elapsed are below duration, the loop
\* is not left from inside a batch except by a failed reconnect, and a batch
\* ends only after batch_size attempts or because running became false.
C20_DurationOnlyAtBatchBoundary ==
    [][ /\ TickStarts => (WholeSeconds(now) < duration /\ running)
        /\ InBatch => pc' \in {"for", "send", "reconnect", "sleep", "done"}
        /\ (InBatch /\ pc' = "done") => stopCause' = "reconnect"
        /\ (pc = "for" /\ pc' = "sleep") => (i >= batch_size \/ ~running)
        /\ (pc = "for" /\ pc' # pc /\ i < batch_size /\ running) => pc' = "send"
      ]_vars

\* C20 witness: a message of a started batch is being sent although the
\* duration has already expired.
C20_Witness ==
    /\ pc = "send"
    /\ running
    /\ i >= 1
    /\ duration >= 1
    /\ WholeSeconds(now) >= duration

====
